---- MODULE Spec2Model ----
(***************************************************************************)
(* link-ai: the chat pipeline (chatService.sendMessage, getChat,           *)
(* deleteChat), the handlers of the chat routes that call it, among them   *)
(* POST /api/chat/message, which relays the events of a turn as            *)
(* Server-Sent Events, and login with the authenticate hook.               *)
(*                                                                         *)
(* Text is a sequence of one-character strings.  The database (Chat,       *)
(* Message and AIModel tables) outlives the process, so Init draws it from *)
(* a small set of contents that earlier runs of the service produce.       *)
(* Durations and createdAt are not modelled; creation order of Message     *)
(* rows is the order of the sequence `messages`.  The wall clock counts    *)
(* days and matters to the expiry of tokens only.                          *)
(*                                                                         *)
(* Spec: one request of the chat routes.  SpecConc: two turns in any       *)
(* interleaving of their awaits.  SpecAuth: a login and a request through  *)
(* the authenticate hook.                                                  *)
(***************************************************************************)
EXTENDS Integers, Sequences, FiniteSets, TLC

\* ------------------------------------------------------------------ bounds
\* number of chunks an upstream stream delivers at most
MaxChunks == 3

\* last tick of the wall clock
MaxNow == 8

\* requests the rate limit hook sees at most
MaxHits == 5

\* timeWindow of the rate limit, in ticks of the clock, and its maxRequests
TimeWindow == 2
MaxRequests == 2

\* credits an account starts with
InitialCredits == 2

\* -------------------------------------------------------- program constants
\* config.jwt.expiresIn: '7d'
ExpiresIn == 7
\* sendMessageSchema: content.max(10000)
MaxContentLen == 10000
\* getChatHistory(chatId, 10)
HistoryLimit == 10
\* title: content.slice(0, 50)
TitleLen == 50

\* --------------------------------------------------------------- optionals
None == <<>>
Some(v) == <<v>>
IsSome(o) == Len(o) = 1
Val(o) == o[1]

\* ------------------------------------------------------------------- text
IsSpace(ch) == ch = " "

RECURSIVE TrimStart(_)
TrimStart(s) ==
  IF s = <<>> THEN s
  ELSE IF IsSpace(Head(s)) THEN TrimStart(Tail(s)) ELSE s

RECURSIVE TrimEnd(_)
TrimEnd(s) ==
  IF s = <<>> THEN s
  ELSE IF IsSpace(s[Len(s)]) THEN TrimEnd(SubSeq(s, 1, Len(s) - 1)) ELSE s

\* String.prototype.trim as used by z.string().trim()
Trim(s) == TrimEnd(TrimStart(s))

\* String.prototype.slice(0, n)
Slice0(s, n) == SubSeq(s, 1, IF Len(s) < n THEN Len(s) ELSE n)

\* `${a}${b}`
Concat(a, b) == a \o b

\* ---------------------------------------------------------------- inputs
Users == {"u1", "u2"}

\* request bodies: empty, whitespace only, and a text with trailing blank
Contents == {<<>>, <<" ">>, <<"a", " ">>}

\* body.stream: omitted or false
StreamInputs == {None, Some(FALSE)}

\* ---------------------------------------------------------- AIModel table
\* a row: id, enabled flag, complete = baseUrl and apiKey are both set
AIModelRow(id, enabled, complete) ==
  [id |-> id, enabled |-> enabled, complete |-> complete]

AIModelTables ==
  { {AIModelRow("m1", TRUE, TRUE), AIModelRow("m2", TRUE, TRUE)},
    {AIModelRow("m1", FALSE, TRUE), AIModelRow("m2", TRUE, TRUE)},
    {AIModelRow("m1", FALSE, TRUE), AIModelRow("m2", FALSE, TRUE)},
    {AIModelRow("m1", TRUE, FALSE), AIModelRow("m2", FALSE, TRUE)} }

\* ------------------------------------------------------------ usage triple
Usage(p, c, t) == [promptTokens |-> p, completionTokens |-> c, totalTokens |-> t]
ZeroUsage == Usage(0, 0, 0)

\* ------------------------------------------------------- Chat and Message
ChatRow(id, userId, title, modelId) ==
  [id |-> id, userId |-> userId, title |-> title, modelId |-> modelId,
   updatedAt |-> 0]

UserMessageRow(id, chatId, content) ==
  [id |-> id, chatId |-> chatId, role |-> "USER", content |-> content,
   reasoning |-> None, modelId |-> None, usage |-> None]

\* variant: the reply is stored with the role of the user's turn
AssistantMessageRow_AsUser(id, chatId, content, reasoning, modelId, usage) ==
  [id |-> id, chatId |-> chatId, role |-> "USER", content |-> content,
   reasoning |-> reasoning, modelId |-> Some(modelId), usage |-> Some(usage)]

AssistantMessageRow(id, chatId, content, reasoning, modelId, usage) ==
  [id |-> id, chatId |-> chatId, role |-> "ASSISTANT", content |-> content,
   reasoning |-> reasoning, modelId |-> Some(modelId), usage |-> Some(usage)]

\* database contents at start-up: empty, or one finished turn of user u1
EmptyDatabase == [chats |-> {}, messages |-> <<>>, nextChatId |-> 1, nextMsgId |-> 1]

OneTurnDatabase ==
  [chats |-> {[ChatRow(1, "u1", <<"a">>, Some("m1")) EXCEPT !.updatedAt = 1]},
   messages |-> << UserMessageRow(1, 1, <<"a">>),
                   AssistantMessageRow(2, 1, <<"x">>, None, "m1", Usage(0, 1, 1)) >>,
   nextChatId |-> 2, nextMsgId |-> 3]

\* texts of the rows of a long chat, in creation order
LongChatTexts == <<"a", "b", "c", "d", "e", "f", "g", "h", "i", "j", "k", "l">>

\* a chat of u1 with eleven rows (turns, the last one unanswered) and, in
\* between, a row of a chat of u2
LongDatabase ==
  [chats |-> {[ChatRow(1, "u1", <<"a">>, Some("m1")) EXCEPT !.updatedAt = 5],
              ChatRow(2, "u2", <<"g">>, Some("m1"))},
   messages |-> [i \in 1..Len(LongChatTexts) |->
                   IF i = 7 THEN UserMessageRow(i, 2, << LongChatTexts[i] >>)
                   ELSE IF i \in {1, 3, 5, 8, 10, 12}
                   THEN UserMessageRow(i, 1, << LongChatTexts[i] >>)
                   ELSE AssistantMessageRow(i, 1, << LongChatTexts[i] >>, None, "m1",
                                            Usage(0, 1, 1))],
   nextChatId |-> 3, nextMsgId |-> Len(LongChatTexts) + 1]

SeedDatabases == {EmptyDatabase, OneTurnDatabase, LongDatabase}

\* rows of one chat, in creation order
MessagesOf(msgs, chatId) == SelectSeq(msgs, LAMBDA m : m.chatId = chatId)

\* variant: the lookup ignores the owner
findChat_AnyOwner(chatRows, id, userId) == {c \in chatRows : c.id = id}

\* prisma.chat.findFirst({ where: { id, userId } })
findChat(chatRows, id, userId) == {c \in chatRows : c.id = id /\ c.userId = userId}

\* variant: the delete removes nothing
DeleteMessage_Keep(msgs, id) == msgs

\* prisma.message.delete({ where: { id } })
DeleteMessage(msgs, id) == SelectSeq(msgs, LAMBDA m : m.id # id)

Reverse(s) == [i \in 1..Len(s) |-> s[Len(s) + 1 - i]]

\* variant: the first n rows are taken
TakeLatest_Oldest(s, n) ==
  LET k == IF Len(s) < n THEN Len(s) ELSE n
  IN  [i \in 1..k |-> s[k + 1 - i]]

\* orderBy createdAt desc, take n
TakeLatest(s, n) == [i \in 1..(IF Len(s) < n THEN Len(s) ELSE n) |-> s[Len(s) + 1 - i]]

\* ------------------------------------------------------------ stream events
ContentEvent(text) == [type |-> "content", content |-> text]
DoneEvent == [type |-> "done"]
ErrorEvent(message) == [type |-> "error", message |-> message]

\* ------------------------------------------------------------------ errors
\* z.string().trim().min(1).max(10000) rejected the content
ZodError == [name |-> "ZodError", statusCode |-> 0, message |-> "content"]
NotFoundError == [name |-> "NotFoundError", statusCode |-> 404, message |-> "not found"]
ChatError(message, statusCode) ==
  [name |-> "ChatError", statusCode |-> statusCode, message |-> message]
\* prisma.chat.delete of a row that is gone
PrismaError == [name |-> "PrismaClientKnownRequestError", statusCode |-> 0,
                message |-> "record to delete does not exist"]

\* what the upstream client throws: an OpenAI.APIError with a status, an
\* OpenAI.APIError without one (connection error), or any other error
UpstreamErrors ==
  { [api |-> TRUE, status |-> Some(429)],
    [api |-> TRUE, status |-> None],
    [api |-> FALSE, status |-> None] }

\* ------------------------------------------------------- upstream replies
Delta(content, reasoning) == [content |-> content, reasoning_content |-> reasoning]

\* one ChatCompletionChunk: choices (none or one) and optional usage
Chunk(choices, usage) == [choices |-> choices, usage |-> usage]

ChunkSet ==
  { Chunk(<<>>, Some(Usage(2, 1, 3))),
    Chunk(<< Delta(Some(<<"x">>), None) >>, None),
    Chunk(<< Delta(None, Some(<<"r">>)) >>, None),
    Chunk(<< Delta(Some(<<"y">>), None) >>, Some(Usage(1, 1, 2))),
    Chunk(<< Delta(None, None) >>, Some(Usage(2, 1, 4))) }

\* choice.delta?.content ?? ''
DeltaContent(choice) == IF IsSome(choice.content) THEN Val(choice.content) ELSE <<>>

\* the reply a chunk sequence carries: its text, its reasoning text and the
\* usage counters it reported last
RECURSIVE ReplyContent(_)
ReplyContent(cs) ==
  IF cs = <<>> THEN <<>>
  ELSE (IF Head(cs).choices = <<>> THEN <<>> ELSE DeltaContent(Head(cs).choices[1]))
       \o ReplyContent(Tail(cs))

RECURSIVE ReplyReasoning(_)
ReplyReasoning(cs) ==
  IF cs = <<>> THEN <<>>
  ELSE (IF Head(cs).choices # <<>> /\ IsSome(Head(cs).choices[1].reasoning_content)
        THEN Val(Head(cs).choices[1].reasoning_content) ELSE <<>>)
       \o ReplyReasoning(Tail(cs))

RECURSIVE ReplyUsage(_)
ReplyUsage(cs) ==
  IF cs = <<>> THEN None
  ELSE IF IsSome(cs[Len(cs)].usage) THEN cs[Len(cs)].usage
  ELSE ReplyUsage(SubSeq(cs, 1, Len(cs) - 1))

\* one ChatCompletion (stream: false)
Completion(choices, usage) == [choices |-> choices, usage |-> usage]

\* the same reply as one completion
AsCompletion(cs) ==
  Completion(<< Delta(Some(ReplyContent(cs)),
                      IF ReplyReasoning(cs) = <<>> THEN None ELSE Some(ReplyReasoning(cs))) >>,
             ReplyUsage(cs))

RECURSIVE ChunkSeqs(_)
ChunkSeqs(n) ==
  IF n = 0 THEN {<<>>}
  ELSE ChunkSeqs(n - 1) \cup {Append(cs, c) : cs \in ChunkSeqs(n - 1), c \in ChunkSet}

\* completions the upstream may return: every streamable reply, a message
\* whose content is null, and a completion without choices
Completions ==
  {AsCompletion(cs) : cs \in ChunkSeqs(MaxChunks)}
  \cup {Completion(<< Delta(None, None) >>, None), Completion(<<>>, None)}

\* ------------------------------------------------------- token accounting
\* countTokens: the encoder is abstracted to one token per character
countTokens(text) == Len(text)

RoleText(role) ==
  CASE role = "user" -> <<"u", "s", "e", "r">>
    [] role = "USER" -> <<"U", "S", "E", "R">>
    [] role = "ASSISTANT" -> <<"A", "S", "S", "I", "S", "T", "A", "N", "T">>
    [] OTHER -> <<"s", "y", "s", "t", "e", "m">>

\* Array.prototype.join
RECURSIVE Join(_, _)
Join(texts, sep) ==
  IF texts = <<>> THEN <<>>
  ELSE IF Len(texts) = 1 THEN texts[1]
  ELSE texts[1] \o sep \o Join(Tail(texts), sep)

\* promptTexts: `${msg.role}: ${msg.content}` for every message but the last
promptTexts(allMessages) ==
  [i \in 1..(Len(allMessages) - 1) |->
     RoleText(allMessages[i].role) \o <<":", " ">> \o allMessages[i].content]

\* getEncoder: the cl100k_base encoder is built on first use and kept
getEncoder(cache) == cache \cup {"cl100k_base"}

\* local usage estimate, applied when the upstream reported no total
UsageFallback(usage, allMessages, fullContent, reasoning) ==
  IF usage.totalTokens = 0 /\ Len(allMessages) > 0
  THEN LET p == countTokens(Join(promptTexts(allMessages), <<"\n">>))
           c == countTokens(fullContent \o (IF IsSome(reasoning) THEN Val(reasoning) ELSE <<>>))
       IN  Usage(p, c, p + c)
  ELSE usage

\* ------------------------------------------------------------ sendMessage
\* variant: the content is checked and kept untrimmed
sendMessageSchema_NoTrim(body) ==
  [ok |-> Len(body.content) >= 1 /\ Len(body.content) <= MaxContentLen,
   content |-> body.content,
   chatId |-> body.chatId,
   stream |-> IF IsSome(body.stream) THEN Val(body.stream) ELSE TRUE]

\* sendMessageSchema.parse: trimmed content of length 1..10000, optional
\* chatId, stream defaulting to true
sendMessageSchema(body) ==
  LET content == Trim(body.content)
  IN  [ok |-> Len(content) >= 1 /\ Len(content) <= MaxContentLen,
       content |-> content,
       chatId |-> body.chatId,
       stream |-> IF IsSome(body.stream) THEN Val(body.stream) ELSE TRUE]

\* getChat: the chat of that id and owner with its messages, newest first
getChat(chatRows, msgs, userId, chatId) ==
  LET found == findChat(chatRows, chatId, userId)
  IN  IF found = {} THEN None
      ELSE Some([chat |-> CHOOSE x \in found : TRUE,
                 messages |-> Reverse(MessagesOf(msgs, chatId))])

\* prisma.chat.delete({ where: { id } })
DeleteChatRow(chatRows, id) == {x \in chatRows : x.id # id}

\* Message.chat is declared onDelete: Cascade
CascadeMessages(msgs, chatId) == SelectSeq(msgs, LAMBDA m : m.chatId # chatId)

\* the relation Message.chat: a Message row can be inserted only for a chat
\* that exists
ChatExists(chatRows, chatId) == \E ch \in chatRows : ch.id = chatId

\* variant: the chat's model is used whether it is enabled or not
findModel_AnyState(models, id) == {m \in models : m.id = id}

\* prisma.aIModel.findFirst({ where: { id, enabled: true } })
findModel(models, id) == {m \in models : m.id = id /\ m.enabled}

\* getDefaultModel: prisma.aIModel.findFirst({ where: { enabled: true } })
getDefaultModel(models) == {m \in models : m.enabled}

\* initOpenAIClient succeeds when baseUrl and apiKey are both set
initOpenAIClient(model) == model.complete

\* variant: the rows of every chat are read
getChatHistory_AllChats(msgs, chatId, limit) ==
  LET latest == Reverse(TakeLatest(msgs, limit))
  IN  [i \in 1..Len(latest) |-> [role |-> latest[i].role, content |-> latest[i].content]]

\* variant: the rows are returned newest first
getChatHistory_NewestFirst(msgs, chatId, limit) ==
  LET latest == TakeLatest(MessagesOf(msgs, chatId), limit)
  IN  [i \in 1..Len(latest) |-> [role |-> latest[i].role, content |-> latest[i].content]]

\* getChatHistory: the latest `limit` rows, reversed to oldest first
getChatHistory(msgs, chatId, limit) ==
  LET latest == Reverse(TakeLatest(MessagesOf(msgs, chatId), limit))
  IN  [i \in 1..Len(latest) |-> [role |-> latest[i].role, content |-> latest[i].content]]

\* messagesToOpenAIFormat
messagesToOpenAIFormat(list) ==
  [i \in 1..Len(list) |-> [role |-> list[i].role, content |-> list[i].content]]

\* title of a new chat: content.slice(0, 50) + (content.length > 50 ? '...' : '')
chatTitle(content) ==
  Slice0(content, TitleLen) \o (IF Len(content) > TitleLen THEN <<".", ".", ".">> ELSE <<>>)

\* variant: every delta is forwarded, empty or not
ProcessChunk_NoGuard(st, chunk) ==
  IF chunk.choices = <<>> THEN st
  ELSE LET choice == chunk.choices[1]
           deltaContent == DeltaContent(choice)
           s1 == [st EXCEPT !.fullContent = @ \o deltaContent,
                            !.events = Append(@, ContentEvent(deltaContent))]
           s2 == IF IsSome(choice.reasoning_content) /\ Val(choice.reasoning_content) # <<>>
                 THEN [s1 EXCEPT !.reasoning =
                         Some((IF IsSome(@) THEN Val(@) ELSE <<>>) \o Val(choice.reasoning_content))]
                 ELSE s1
       IN  IF IsSome(chunk.usage) THEN [s2 EXCEPT !.usage = Val(chunk.usage)] ELSE s2

\* body of the `for await` loop for one chunk; st carries fullContent,
\* reasoning, usage and the events handed to onChunk
ProcessChunk(st, chunk) ==
  IF chunk.choices = <<>> THEN st
  ELSE LET choice == chunk.choices[1]
           deltaContent == DeltaContent(choice)
           s1 == IF deltaContent # <<>>
                 THEN [st EXCEPT !.fullContent = @ \o deltaContent,
                                 !.events = Append(@, ContentEvent(deltaContent))]
                 ELSE st
           s2 == IF IsSome(choice.reasoning_content) /\ Val(choice.reasoning_content) # <<>>
                 THEN [s1 EXCEPT !.reasoning =
                         Some((IF IsSome(@) THEN Val(@) ELSE <<>>) \o Val(choice.reasoning_content))]
                 ELSE s1
       IN  IF IsSome(chunk.usage) THEN [s2 EXCEPT !.usage = Val(chunk.usage)] ELSE s2

\* variant: no done event at the end of the stream
StreamExhausted_Silent(st) == st

\* after the loop: onChunk?.({ type: 'done' })
StreamExhausted(st) == [st EXCEPT !.events = Append(@, DoneEvent)]

\* the non-streaming branch for one completion
NonStreaming(st, completion) ==
  LET hasMessage == completion.choices # <<>>
      message == completion.choices[1]
      fullContent == IF hasMessage
                     THEN (IF IsSome(message.content) THEN Val(message.content) ELSE <<>>)
                     ELSE st.fullContent
      reasoning == IF hasMessage THEN message.reasoning_content ELSE st.reasoning
      usage == IF IsSome(completion.usage) THEN Val(completion.usage) ELSE st.usage
  IN  [fullContent |-> fullContent, reasoning |-> reasoning, usage |-> usage,
       events |-> IF fullContent # <<>>
                  THEN st.events \o << ContentEvent(fullContent), DoneEvent >>
                  ELSE st.events]

\* the error sendMessage throws from its catch block
UpstreamFailure(error) ==
  IF error.api
  THEN ChatError("AI service error", IF IsSome(error.status) THEN Val(error.status) ELSE 500)
  ELSE ChatError("AI service unavailable", 503)

\* the AIResponse returned (duration left out)
AIResponse(c) ==
  [content |-> c.fullContent, reasoning |-> c.reasoning,
   modelId |-> Val(c.modelConfig).id, usage |-> c.usage]

\* --------------------------------------------------- POST /chat/message
\* lines written to reply.raw
DoneLine == [lit |-> "[DONE]"]
JsonLine(type, content) == [type |-> type, content |-> content]
MetaLine(result) == [type |-> "meta", data |-> result]
IsDoneLine(l) == "lit" \in DOMAIN l

\* toSSE
toSSE(data) ==
  IF data.type = "done" THEN DoneLine
  ELSE IF data.type = "error" THEN JsonLine("error", data.message)
  ELSE JsonLine("content", data.content)

\* a JSON reply: status code and the fields of its body
JsonReply(status, code, message, fields) ==
  [status |-> status, code |-> code, message |-> message, fields |-> fields]

\* handleError of the chat routes
handleError(err) ==
  IF err.name = "ZodError"
  THEN JsonReply(400, 400, "validation", {"code", "message"})
  ELSE IF err.name \in {"ChatError", "NotFoundError"}
  THEN JsonReply(err.statusCode, err.statusCode, err.message, {"code", "message"})
  ELSE JsonReply(500, 500, "server error", {"code", "message"})

\* reply.sent: the reply was hijacked (never done here) or reply.raw has ended
replySent(c) == c.rawEnded

\* ------------------------------------------------------------- auth routes
\* bcrypt: the stored hash of a password, and bcrypt.compare
BcryptHash(password) == [bcrypt |-> password]
bcryptCompare(password, hash) == hash = BcryptHash(password)

\* User rows: id, unique email, display name (nullable), password hash
UserRows ==
  { [id |-> "u1", email |-> "ann@x", name |-> Some("Ann"), password |-> BcryptHash("pw1")],
    [id |-> "u2", email |-> "bob@x", name |-> None, password |-> BcryptHash("pw2")] }

Emails == {"ann@x", "bob@x", "eve@x"}
Passwords == {"pw1", "pw2"}

\* config.jwt.secret: the value of JWT_SECRET, '' when it is not set
Secrets == {"", "k"}

\* a JWT: the claims of its payload (a claim left out is None) and the key
\* its signature was made with; or a string that is not a JWT
Jwt(userId, name, email, iat, exp, key) ==
  [jwt |-> TRUE, userId |-> userId, name |-> name, email |-> email,
   iat |-> iat, exp |-> exp, key |-> key]
NotAJwt ==
  [jwt |-> FALSE, userId |-> None, name |-> None, email |-> None,
   iat |-> 0, exp |-> 0, key |-> ""]

\* jwt.sign(payload, secret, { expiresIn }): None when it throws
jwtSign(userId, name, email, secret, expiresIn, clock) ==
  IF secret = "" THEN None
  ELSE Some(Jwt(userId, name, email, clock, clock + expiresIn, secret))

\* jwt.verify(token, secret): the payload, or the error it throws
jwtVerify(token, secret, clock) ==
  IF ~token.jwt \/ token.key # secret
  THEN [ok |-> FALSE, error |-> "JsonWebTokenError", payload |-> NotAJwt]
  ELSE IF clock >= token.exp
  THEN [ok |-> FALSE, error |-> "TokenExpiredError", payload |-> NotAJwt]
  ELSE [ok |-> TRUE, error |-> "", payload |-> token]

\* what login throws: an Error with statusCode 401, or what jwt.sign throws
LoginError(message, statusCode) ==
  [name |-> "Error", message |-> message, statusCode |-> statusCode, code |-> 0]

\* login(email, password)
login(email, password, secret, clock) ==
  LET found == {u \in UserRows : u.email = email}
      user == CHOOSE u \in found : TRUE
      token == jwtSign(Some(user.id), user.name, None, secret, ExpiresIn, clock)
  IN  IF found = {}
      THEN [ok |-> FALSE, error |-> LoginError("no such user", 401)]
      ELSE IF ~bcryptCompare(password, user.password)
      THEN [ok |-> FALSE, error |-> LoginError("wrong password", 401)]
      ELSE IF token = None
      THEN [ok |-> FALSE, error |-> LoginError("secretOrPrivateKey must have a value", 0)]
      ELSE [ok |-> TRUE, token |-> Val(token),
            user |-> [id |-> user.id, email |-> user.email, name |-> user.name]]

\* new BusinessError(message, statusCode): code keeps its default, 400
BusinessError(message, statusCode) ==
  [name |-> "BusinessError", message |-> message, statusCode |-> statusCode, code |-> 400]

\* an Authorization header: the scheme and the tokens after it, one blank
\* before each; authHeader.split(' ')
Header(scheme, tokens) == [scheme |-> scheme, tokens |-> tokens]
SplitLength(header) == 1 + Len(header.tokens)

\* the empty string after a trailing blank
EmptyToken == [NotAJwt EXCEPT !.key = "empty"]

\* variant: the scheme of the header is not looked at
authenticate_AnyScheme(authHeader, secret, clock) ==
  IF authHeader = None
  THEN [ok |-> FALSE, error |-> BusinessError("no token", 401)]
  ELSE IF SplitLength(Val(authHeader)) # 2
  THEN [ok |-> FALSE, error |-> BusinessError("not a Bearer header", 401)]
  ELSE IF Val(authHeader).tokens[1] = EmptyToken
  THEN [ok |-> FALSE, error |-> BusinessError("empty token", 401)]
  ELSE IF secret = ""
  THEN [ok |-> FALSE, error |-> BusinessError("JWT configuration", 500)]
  ELSE LET verified == jwtVerify(Val(authHeader).tokens[1], secret, clock)
           payload == verified.payload
       IN  IF verified.ok
           THEN [ok |-> TRUE,
                 user |-> [userId |-> payload.userId, name |-> payload.name,
                           email |-> payload.email]]
           ELSE IF verified.error = "TokenExpiredError"
           THEN [ok |-> FALSE, error |-> BusinessError("token expired", 401)]
           ELSE [ok |-> FALSE, error |-> BusinessError("token invalid", 401)]

\* authenticate: request.user, or the BusinessError thrown
authenticate(authHeader, secret, clock) ==
  IF authHeader = None
  THEN [ok |-> FALSE, error |-> BusinessError("no token", 401)]
  ELSE IF SplitLength(Val(authHeader)) # 2 \/ Val(authHeader).scheme # "Bearer"
  THEN [ok |-> FALSE, error |-> BusinessError("not a Bearer header", 401)]
  ELSE IF Val(authHeader).tokens[1] = EmptyToken
  THEN [ok |-> FALSE, error |-> BusinessError("empty token", 401)]
  ELSE IF secret = ""
  THEN [ok |-> FALSE, error |-> BusinessError("JWT configuration", 500)]
  ELSE LET verified == jwtVerify(Val(authHeader).tokens[1], secret, clock)
           payload == verified.payload
       IN  IF verified.ok
           THEN [ok |-> TRUE,
                 user |-> [userId |-> payload.userId, name |-> payload.name,
                           email |-> payload.email]]
           ELSE IF verified.error = "TokenExpiredError"
           THEN [ok |-> FALSE, error |-> BusinessError("token expired", 401)]
           ELSE [ok |-> FALSE, error |-> BusinessError("token invalid", 401)]

\* the global error handler
errorHandler(error, isDevelopment) ==
  IF error.name = "ZodError"
  THEN JsonReply(400, 400, "validation", {"code", "message", "data"})
  ELSE IF error.name = "BusinessError"
  THEN JsonReply(error.statusCode, error.code, error.message, {"code", "message", "data"})
  ELSE JsonReply(500, 500, IF isDevelopment THEN error.message ELSE "server error",
                 {"code", "message", "data"} \cup (IF isDevelopment THEN {"stack"} ELSE {}))

\* --------------------------------------------------------------- rate limit
\* addresses a request may come from
Ips == {"ip1", "ip2"}

\* a request as the onRequest hooks see it
HttpRequest(token, forwarded, ip, user) ==
  [token |-> token, forwarded |-> forwarded, ip |-> ip, user |-> user]

\* getClientIp: X-Forwarded-For first, then request.ip
getClientIp(request) ==
  IF IsSome(request.forwarded) THEN Val(request.forwarded) ELSE request.ip

\* `${keyPrefix}:user:${userId}` and `${keyPrefix}:ip:${ip}`
UserKey(keyPrefix, userId) == <<keyPrefix, "user", userId>>
IpKey(keyPrefix, ip) == <<keyPrefix, "ip", ip>>

Keys == {UserKey("api", u) : u \in Users} \cup {IpKey("api", ip) : ip \in Ips}

RateLimitItem(count, resetTime) == [count |-> count, resetTime |-> resetTime]

\* variant: a request over the limit starts the window again
rateLimit_MovingWindow(store, request, clock) ==
  LET userId == request.user
      key == IF IsSome(userId) THEN UserKey("api", Val(userId))
             ELSE IpKey("api", getClientIp(request))
      record == IF store[key] = None \/ Val(store[key]).resetTime < clock
                THEN RateLimitItem(0, clock + TimeWindow)
                ELSE Val(store[key])
      counted == [record EXCEPT !.count = @ + 1]
      blocked == counted.count > MaxRequests
  IN  [store |-> [store EXCEPT ![key] =
                    Some(IF blocked THEN RateLimitItem(counted.count, clock + TimeWindow)
                         ELSE counted)],
       key |-> key,
       status |-> IF blocked THEN Some(429) ELSE None]

\* the hook made by createRateLimit({keyPrefix: 'api'}): the store after
\* the request, the key it was counted under, and the status of the reply
\* the hook sent, if it sent one
rateLimit(store, request, clock) ==
  LET userId == request.user
      key == IF IsSome(userId) THEN UserKey("api", Val(userId))
             ELSE IpKey("api", getClientIp(request))
      resetTime == clock + TimeWindow
      record == IF store[key] = None \/ Val(store[key]).resetTime < clock
                THEN RateLimitItem(0, resetTime)
                ELSE Val(store[key])
      counted == [record EXCEPT !.count = @ + 1]
  IN  [store |-> [store EXCEPT ![key] = Some(counted)],
       key |-> key,
       status |-> IF counted.count > MaxRequests THEN Some(429) ELSE None]

\* cleanupExpiredRecords
cleanupExpiredRecords(store, clock) ==
  [key \in DOMAIN store |->
     IF IsSome(store[key]) /\ Val(store[key]).resetTime < clock THEN None ELSE store[key]]

\* ------------------------------------------------------------------ state
VARIABLES
  chats,        \* Chat rows
  messages,     \* Message rows in creation order
  aiModels,     \* AIModel rows
  nextChatId,   \* id the next Chat row gets
  nextMsgId,    \* id the next Message row gets
  call,         \* the requests, one per slot
  encoderCache, \* tokenizer encoders built so far, by encoding name
  auth,         \* the login and the authenticated request of the auth routes
  now,          \* wall clock
  rateLimitStore, \* rate limit records by key
  hit,          \* the last request seen by the rate limit hook
  letThrough,   \* by key, the requests let through since its record was created
  credits,      \* credit balance by user id
  deduct        \* the deductCredits calls, one per slot

vars == <<chats, messages, aiModels, nextChatId, nextMsgId, call, encoderCache, auth, now,
          rateLimitStore, hit, letThrough, credits, deduct>>
db == <<chats, messages, aiModels, nextChatId, nextMsgId>>
\* what the chat routes never touch
limiter == <<rateLimitStore, hit, letThrough>>
ledger == <<credits, deduct>>
others == <<auth, now, limiter, ledger>>

\* the auth routes before any request
IdleAuth ==
  [pc |-> "idle", secret |-> "k", email |-> None, password |-> None, login |-> None,
   loginError |-> None, header |-> None, user |-> None, error |-> None,
   reply |-> None, at |-> 0]

\* the rate limit before any request: an empty Map
InitLimiter ==
  /\ rateLimitStore = [key \in Keys |-> None]
  /\ hit = [n |-> 0, token |-> None, key |-> None, status |-> None]
  /\ letThrough = [key \in Keys |-> 0]

\* a deductCredits call not yet made
IdleDeduct == [pc |-> "idle", userId |-> None, amount |-> 0, error |-> None]

\* the accounts before any deduction
InitLedger ==
  /\ credits = [u \in Users |-> InitialCredits]
  /\ deduct = [t \in {1, 2} |-> IdleDeduct]

\* the requests of a behaviour; each starts on the database as it then is
Slots == {1}

IdleCall ==
  [pc |-> "idle", op |-> "sendMessage",
   userId |-> None, body |-> None,
   content |-> <<>>, specifiedChatId |-> None, useStream |-> TRUE,
   chatId |-> None, chatModelId |-> None, modelConfig |-> None,
   existingMessages |-> <<>>, allMessages |-> <<>>, userMessageId |-> None,
   fullContent |-> <<>>, reasoning |-> None, usage |-> ZeroUsage,
   upstreamError |-> None, error |-> None, result |-> None,
   events |-> <<>>, raw |-> <<>>, rawEnded |-> FALSE, jsonReply |-> None,
   \* history of the call, kept for the properties
   chunks |-> <<>>, upstreamCalls |-> 0, deleteDone |-> None, saveDone |-> None,
   assistantMessageId |-> None,
   before |-> [chats |-> {}, messages |-> <<>>]]

Init ==
  /\ \E seed \in SeedDatabases :
       /\ chats = seed.chats
       /\ messages = seed.messages
       /\ nextChatId = seed.nextChatId
       /\ nextMsgId = seed.nextMsgId
  /\ aiModels \in AIModelTables
  /\ call = [t \in Slots |-> IdleCall]
  /\ encoderCache = {}
  /\ auth = IdleAuth
  /\ now = 0
  /\ InitLimiter
  /\ InitLedger

\* catch block of ChatController.sendMessage for the error sendMessage threw
Throw(c, err) ==
  IF ~replySent(c)
  THEN [c EXCEPT !.pc = "failed", !.error = Some(err),
                 !.jsonReply = Some(handleError(err))]
  ELSE [c EXCEPT !.pc = "failed", !.error = Some(err),
                 !.raw = Append(@, toSSE(ErrorEvent(IF err.name = "ChatError"
                                                     THEN err.message ELSE "server error"))),
                 !.rawEnded = TRUE]

\* the events onChunk received since `old` are written to reply.raw
Relay(c, old) ==
  [c EXCEPT !.raw = @ \o [i \in 1..(Len(c.events) - Len(old.events)) |->
                            toSSE(c.events[Len(old.events) + i])]]

\* ---------------------------------------------------------------- actions
\* the handler is entered: the userId check, the first SSE write, and
\* sendMessage up to its first await (schema parse); the request is drawn
\* from the given users, contents and stream flags
RequestWith(t, reqUsers, contents, streams) ==
  /\ call[t].pc = "idle"
  /\ \E reqUser \in reqUsers,
        content \in contents,
        chatId \in {None} \cup {Some(i) : i \in 1..nextChatId},
        stream \in streams :
       LET body == [content |-> content, chatId |-> chatId, stream |-> stream]
           c0 == [IdleCall EXCEPT !.userId = reqUser, !.body = Some(body),
                                  !.before = [chats |-> chats, messages |-> messages]]
           c1 == [c0 EXCEPT !.raw = << toSSE(ContentEvent(<<>>)) >>]
           parsed == sendMessageSchema(body)
       IN  call' = [call EXCEPT ![t] =
             IF reqUser = None
             THEN [c0 EXCEPT !.pc = "rejected",
                             !.jsonReply = Some(JsonReply(401, 401, "unauthenticated",
                                                          {"code", "message", "data"}))]
             ELSE IF ~parsed.ok
             THEN Throw(c1, ZodError)
             ELSE [c1 EXCEPT !.content = parsed.content,
                             !.specifiedChatId = parsed.chatId,
                             !.useStream = parsed.stream,
                             !.pc = IF IsSome(parsed.chatId) THEN "findChat"
                                    ELSE "getDefaultModel"]]
  /\ UNCHANGED db
  /\ UNCHANGED <<encoderCache, others>>

Request(t) ==
  RequestWith(t, {None} \cup {Some(u) : u \in Users}, Contents, StreamInputs)

\* chat resolution for a given chatId
FindChat(t) ==
  LET c == call[t]
      found == findChat(chats, Val(c.specifiedChatId), Val(c.userId))
  IN  /\ c.pc = "findChat"
      /\ call' = [call EXCEPT ![t] =
           IF found = {}
           THEN Throw(c, NotFoundError)
           ELSE LET chat == CHOOSE x \in found : TRUE
                IN  [c EXCEPT !.chatId = c.specifiedChatId,
                              !.chatModelId = chat.modelId,
                              !.pc = IF IsSome(chat.modelId) THEN "findModel"
                                     ELSE "getDefaultModel"]]
      /\ UNCHANGED db
      /\ UNCHANGED <<encoderCache, others>>

\* the chat's own model, if it is enabled
FindModel(t) ==
  LET c == call[t]
      found == findModel(aiModels, Val(c.chatModelId))
  IN  /\ c.pc = "findModel"
      /\ call' = [call EXCEPT ![t] =
           IF found = {}
           THEN [c EXCEPT !.pc = "getDefaultModel"]
           ELSE [c EXCEPT !.modelConfig = Some(CHOOSE m \in found : TRUE),
                          !.pc = "getChatHistory"]]
      /\ UNCHANGED db
      /\ UNCHANGED <<encoderCache, others>>

\* any enabled model; none is an error
GetDefaultModel(t) ==
  LET c == call[t]
      enabled == getDefaultModel(aiModels)
  IN  /\ c.pc = "getDefaultModel"
      /\ IF enabled = {}
         THEN call' = [call EXCEPT ![t] = Throw(c, ChatError("no model", 400))]
         ELSE \E m \in enabled :
                call' = [call EXCEPT ![t] =
                  [c EXCEPT !.modelConfig = Some(m),
                            !.pc = IF IsSome(c.specifiedChatId) THEN "getChatHistory"
                                   ELSE "createChat"]]
      /\ UNCHANGED db
      /\ UNCHANGED <<encoderCache, others>>

\* initOpenAIClient and the assembly of allMessages, run without an await
\* after the history read or the chat creation
ClientAndContext(c) ==
  IF ~initOpenAIClient(Val(c.modelConfig))
  THEN Throw(c, ChatError("model config incomplete", 400))
  ELSE [c EXCEPT !.allMessages = messagesToOpenAIFormat(c.existingMessages)
                                   \o << [role |-> "user", content |-> c.content] >>,
                 !.pc = "saveUserMessage"]

GetChatHistory(t) ==
  LET c == call[t]
  IN  /\ c.pc = "getChatHistory"
      /\ call' = [call EXCEPT ![t] =
           ClientAndContext([c EXCEPT !.existingMessages =
                               getChatHistory(messages, Val(c.chatId), HistoryLimit)])]
      /\ UNCHANGED db
      /\ UNCHANGED <<encoderCache, others>>

CreateChat(t) ==
  LET c == call[t]
  IN  /\ c.pc = "createChat"
      /\ chats' = chats \cup {ChatRow(nextChatId, Val(c.userId), chatTitle(c.content),
                                      Some(Val(c.modelConfig).id))}
      /\ nextChatId' = nextChatId + 1
      /\ call' = [call EXCEPT ![t] = ClientAndContext([c EXCEPT !.chatId = Some(nextChatId)])]
      /\ UNCHANGED <<messages, aiModels, nextMsgId>>
      /\ UNCHANGED <<encoderCache, others>>

\* variant: the upstream call is reached without storing the user's turn
SaveUserMessage_Skip(t) ==
  LET c == call[t]
  IN  /\ c.pc = "saveUserMessage"
      /\ call' = [call EXCEPT ![t] = [c EXCEPT !.pc = "callUpstream"]]
      /\ UNCHANGED db
      /\ UNCHANGED <<encoderCache, others>>

\* prisma.message.create for the user's turn
\* variant: the row is inserted whether or not its chat still exists
SaveUserMessage_Unchecked(t) ==
  LET c == call[t]
  IN  /\ c.pc = "saveUserMessage"
      /\ messages' = Append(messages, UserMessageRow(nextMsgId, Val(c.chatId), c.content))
      /\ nextMsgId' = nextMsgId + 1
      /\ call' = [call EXCEPT ![t] = [c EXCEPT !.userMessageId = Some(nextMsgId),
                                               !.pc = "callUpstream"]]
      /\ UNCHANGED <<chats, aiModels, nextChatId>>
      /\ UNCHANGED <<encoderCache, others>>

\* prisma.message.create for the user's turn; it is outside the try block,
\* so a failed insert ends the turn with the error of the database
SaveUserMessage(t) ==
  LET c == call[t]
  IN  /\ c.pc = "saveUserMessage"
      /\ IF ChatExists(chats, Val(c.chatId))
         THEN /\ messages' = Append(messages,
                               UserMessageRow(nextMsgId, Val(c.chatId), c.content))
              /\ nextMsgId' = nextMsgId + 1
              /\ call' = [call EXCEPT ![t] = [c EXCEPT !.userMessageId = Some(nextMsgId),
                                                       !.pc = "callUpstream"]]
         ELSE /\ call' = [call EXCEPT ![t] = Throw(c, PrismaError)]
              /\ UNCHANGED <<messages, nextMsgId>>
      /\ UNCHANGED <<chats, aiModels, nextChatId>>
      /\ UNCHANGED <<encoderCache, others>>

\* the statements between the try block and the transaction: usage fallback
AfterUpstream(c) ==
  [c EXCEPT !.usage = UsageFallback(c.usage, c.allMessages, c.fullContent, c.reasoning),
            !.pc = "saveAssistant"]

\* the encoder cache after those statements: countTokens builds the encoder
\* when the estimate is computed
CacheAfterUpstream(cache, c) ==
  IF c.usage.totalTokens = 0 /\ Len(c.allMessages) > 0 THEN getEncoder(cache) ELSE cache

\* fullContent, reasoning, usage and events of a call
StreamState(c) ==
  [fullContent |-> c.fullContent, reasoning |-> c.reasoning, usage |-> c.usage,
   events |-> c.events]

WithStreamState(c, st) ==
  Relay([c EXCEPT !.fullContent = st.fullContent, !.reasoning = st.reasoning,
                  !.usage = st.usage, !.events = st.events], c)

\* stream: true, the request is accepted and the stream opens
UpstreamOpen(t) ==
  LET c == call[t]
  IN  /\ c.pc = "callUpstream"
      /\ c.useStream
      /\ call' = [call EXCEPT ![t] = [c EXCEPT !.upstreamCalls = @ + 1,
                                               !.pc = "streaming"]]
      /\ UNCHANGED db
      /\ UNCHANGED <<encoderCache, others>>

\* stream: false, the completion arrives
UpstreamComplete(t) ==
  LET c == call[t]
  IN  /\ c.pc = "callUpstream"
      /\ ~c.useStream
      /\ \E completion \in Completions :
           LET c1 == WithStreamState([c EXCEPT !.upstreamCalls = @ + 1],
                                     NonStreaming(StreamState(c), completion))
           IN  /\ call' = [call EXCEPT ![t] = AfterUpstream(c1)]
               /\ encoderCache' = CacheAfterUpstream(encoderCache, c1)
      /\ UNCHANGED <<db, others>>

\* the request itself fails, in either mode
\* variant: a rejected request is issued once more before the turn gives up
UpstreamReject_Retry(t) ==
  LET c == call[t]
  IN  /\ c.pc = "callUpstream"
      /\ \E error \in UpstreamErrors :
           call' = [call EXCEPT ![t] =
             IF c.upstreamCalls = 0
             THEN [c EXCEPT !.upstreamCalls = @ + 1, !.pc = "saveUserMessage"]
             ELSE [c EXCEPT !.upstreamCalls = @ + 1,
                            !.upstreamError = Some(error),
                            !.pc = "compensate"]]
      /\ UNCHANGED db
      /\ UNCHANGED <<encoderCache, others>>

UpstreamReject(t) ==
  LET c == call[t]
  IN  /\ c.pc = "callUpstream"
      /\ \E error \in UpstreamErrors :
           call' = [call EXCEPT ![t] = [c EXCEPT !.upstreamCalls = @ + 1,
                                                 !.upstreamError = Some(error),
                                                 !.pc = "compensate"]]
      /\ UNCHANGED db
      /\ UNCHANGED <<encoderCache, others>>

\* one iteration of the `for await` loop, for a chunk of the given set
StreamChunkWith(t, chunkSet, maxChunks) ==
  LET c == call[t]
  IN  /\ c.pc = "streaming"
      /\ Len(c.chunks) < maxChunks
      /\ \E chunk \in chunkSet :
           call' = [call EXCEPT ![t] =
             WithStreamState([c EXCEPT !.chunks = Append(@, chunk)],
                             ProcessChunk(StreamState(c), chunk))]
      /\ UNCHANGED db
      /\ UNCHANGED <<encoderCache, others>>

StreamChunk(t) == StreamChunkWith(t, ChunkSet, MaxChunks)

\* the stream is exhausted
StreamEnd(t) ==
  LET c == call[t]
  IN  /\ c.pc = "streaming"
      /\ LET c1 == WithStreamState(c, StreamExhausted(StreamState(c)))
         IN  /\ call' = [call EXCEPT ![t] = AfterUpstream(c1)]
             /\ encoderCache' = CacheAfterUpstream(encoderCache, c1)
      /\ UNCHANGED <<db, others>>

\* the stream throws one of the given errors during iteration
StreamFailWith(t, errors) ==
  LET c == call[t]
  IN  /\ c.pc = "streaming"
      /\ \E error \in errors :
           call' = [call EXCEPT ![t] = [c EXCEPT !.upstreamError = Some(error),
                                                 !.pc = "compensate"]]
      /\ UNCHANGED db
      /\ UNCHANGED <<encoderCache, others>>

StreamFail(t) == StreamFailWith(t, UpstreamErrors)

\* variant: the catch block stores the text received so far as the reply
Compensate_PersistPartial(t) ==
  LET c == call[t]
  IN  /\ c.pc = "compensate"
      /\ messages' = IF c.fullContent # <<>>
                     THEN Append(messages,
                                 AssistantMessageRow(nextMsgId, Val(c.chatId), c.fullContent,
                                                     c.reasoning, Val(c.modelConfig).id,
                                                     c.usage))
                     ELSE messages
      /\ nextMsgId' = nextMsgId + 1
      /\ call' = [call EXCEPT ![t] =
           Throw([c EXCEPT !.deleteDone = Some(FALSE)],
                 UpstreamFailure(Val(c.upstreamError)))]
      /\ UNCHANGED <<chats, aiModels, nextChatId>>
      /\ UNCHANGED <<encoderCache, others>>

\* catch block of sendMessage: the compensating delete, whose own failure
\* is swallowed, then the ChatError
Compensate(t) ==
  LET c == call[t]
  IN  /\ c.pc = "compensate"
      /\ \E ok \in BOOLEAN :
           /\ messages' = IF ok THEN DeleteMessage(messages, Val(c.userMessageId))
                          ELSE messages
           /\ call' = [call EXCEPT ![t] =
                Throw([c EXCEPT !.deleteDone = Some(ok)],
                      UpstreamFailure(Val(c.upstreamError)))]
      /\ UNCHANGED <<chats, aiModels, nextChatId, nextMsgId>>
      /\ UNCHANGED <<encoderCache, others>>

\* variant: the two writes are not one transaction; a failure leaves the
\* assistant row without the updatedAt bump
SaveAssistant_Partial(t) ==
  LET c == call[t]
      chatId == Val(c.chatId)
      result == AIResponse(c)
  IN  /\ c.pc = "saveAssistant"
      /\ \E ok \in BOOLEAN :
           /\ ok => ChatExists(chats, chatId)
           /\ messages' = Append(messages,
                             AssistantMessageRow(nextMsgId, chatId, c.fullContent,
                                                 c.reasoning, Val(c.modelConfig).id,
                                                 c.usage))
           /\ nextMsgId' = nextMsgId + 1
           /\ chats' = IF ok
                       THEN {IF ch.id = chatId THEN [ch EXCEPT !.updatedAt = @ + 1] ELSE ch
                               : ch \in chats}
                       ELSE chats
           /\ call' = [call EXCEPT ![t] =
                [c EXCEPT !.saveDone = Some(ok),
                          !.assistantMessageId = IF ok THEN Some(nextMsgId) ELSE None,
                          !.result = Some(result),
                          !.raw = Append(@, MetaLine(result)),
                          !.rawEnded = TRUE,
                          !.pc = "done"]]
      /\ UNCHANGED <<aiModels, nextChatId>>
      /\ UNCHANGED <<encoderCache, others>>

\* the transaction (assistant row and updatedAt bump; its failure is only
\* logged), the return of sendMessage, and the handler's meta line and end
SaveAssistant(t) ==
  LET c == call[t]
      chatId == Val(c.chatId)
      result == AIResponse(c)
  IN  /\ c.pc = "saveAssistant"
      /\ \E ok \in BOOLEAN :
           /\ ok => ChatExists(chats, chatId)
           /\ IF ok
              THEN /\ messages' = Append(messages,
                                    AssistantMessageRow(nextMsgId, chatId, c.fullContent,
                                                        c.reasoning, Val(c.modelConfig).id,
                                                        c.usage))
                   /\ chats' = {IF ch.id = chatId THEN [ch EXCEPT !.updatedAt = @ + 1] ELSE ch
                                  : ch \in chats}
                   /\ nextMsgId' = nextMsgId + 1
              ELSE UNCHANGED <<messages, chats, nextMsgId>>
           /\ call' = [call EXCEPT ![t] =
                [c EXCEPT !.saveDone = Some(ok),
                          !.assistantMessageId = IF ok THEN Some(nextMsgId) ELSE None,
                          !.result = Some(result),
                          !.raw = Append(@, MetaLine(result)),
                          !.rawEnded = TRUE,
                          !.pc = "done"]]
      /\ UNCHANGED <<aiModels, nextChatId>>
      /\ UNCHANGED <<encoderCache, others>>

\* GET /api/chat/:chatId: the userId check, up to the await of getChat
Detail(t) ==
  /\ call[t].pc = "idle"
  /\ \E reqUser \in {None} \cup {Some(u) : u \in Users}, chatId \in 1..nextChatId :
       LET c0 == [IdleCall EXCEPT !.op = "getChat", !.userId = reqUser,
                                  !.specifiedChatId = Some(chatId),
                                  !.before = [chats |-> chats, messages |-> messages]]
       IN  call' = [call EXCEPT ![t] =
             IF reqUser = None
             THEN [c0 EXCEPT !.pc = "rejected",
                             !.jsonReply = Some(JsonReply(401, 401, "unauthenticated",
                                                          {"code", "message", "data"}))]
             ELSE [c0 EXCEPT !.pc = "getChat"]]
  /\ UNCHANGED db
  /\ UNCHANGED <<encoderCache, others>>

\* getChat and the reply of the handler
GetChat(t) ==
  LET c == call[t]
      data == getChat(chats, messages, Val(c.userId), Val(c.specifiedChatId))
  IN  /\ c.pc = "getChat"
      /\ call' = [call EXCEPT ![t] =
           IF data = None
           THEN Throw(c, NotFoundError)
           ELSE [c EXCEPT !.result = data,
                          !.jsonReply = Some(JsonReply(200, 0, "success",
                                                       {"code", "message", "data"})),
                          !.pc = "replied"]]
      /\ UNCHANGED db
      /\ UNCHANGED <<encoderCache, others>>

\* DELETE /api/chat/:chatId: the userId check, up to the first await of
\* deleteChat
DeleteWith(t, reqUsers) ==
  /\ call[t].pc = "idle"
  /\ \E reqUser \in reqUsers, chatId \in 1..nextChatId :
       LET c0 == [IdleCall EXCEPT !.op = "deleteChat", !.userId = reqUser,
                                  !.specifiedChatId = Some(chatId),
                                  !.before = [chats |-> chats, messages |-> messages]]
       IN  call' = [call EXCEPT ![t] =
             IF reqUser = None
             THEN [c0 EXCEPT !.pc = "rejected",
                             !.jsonReply = Some(JsonReply(401, 401, "unauthenticated",
                                                          {"code", "message", "data"}))]
             ELSE [c0 EXCEPT !.pc = "deleteFind"]]
  /\ UNCHANGED db
  /\ UNCHANGED <<encoderCache, others>>

\* the request comes with or without request.user
Delete(t) == DeleteWith(t, {None} \cup {Some(u) : u \in Users})

\* deleteChat: the ownership lookup
DeleteFind(t) ==
  LET c == call[t]
      found == findChat(chats, Val(c.specifiedChatId), Val(c.userId))
  IN  /\ c.pc = "deleteFind"
      /\ call' = [call EXCEPT ![t] =
           IF found = {} THEN Throw(c, NotFoundError)
           ELSE [c EXCEPT !.chatId = c.specifiedChatId, !.pc = "deleteChat"]]
      /\ UNCHANGED db
      /\ UNCHANGED <<encoderCache, others>>

\* deleteChat: the delete, and the reply of the handler
DeleteChat(t) ==
  LET c == call[t]
      chatId == Val(c.chatId)
  IN  /\ c.pc = "deleteChat"
      /\ IF \E ch \in chats : ch.id = chatId
         THEN /\ chats' = DeleteChatRow(chats, chatId)
              /\ messages' = CascadeMessages(messages, chatId)
              /\ call' = [call EXCEPT ![t] =
                   [c EXCEPT !.jsonReply = Some(JsonReply(200, 0, "deleted",
                                                          {"code", "message"})),
                             !.pc = "replied"]]
         ELSE /\ call' = [call EXCEPT ![t] = Throw(c, PrismaError)]
              /\ UNCHANGED <<chats, messages>>
      /\ UNCHANGED <<aiModels, nextChatId, nextMsgId>>
      /\ UNCHANGED <<encoderCache, others>>

\* --------------------------------------------------------- specification
Next ==
  \E t \in Slots :
    \/ Request(t)
    \/ FindChat(t)
    \/ FindModel(t)
    \/ GetDefaultModel(t)
    \/ GetChatHistory(t)
    \/ CreateChat(t)
    \/ SaveUserMessage(t)
    \/ UpstreamOpen(t)
    \/ UpstreamComplete(t)
    \/ UpstreamReject(t)
    \/ StreamChunk(t)
    \/ StreamEnd(t)
    \/ StreamFail(t)
    \/ Compensate(t)
    \/ SaveAssistant(t)
    \/ Detail(t)
    \/ GetChat(t)
    \/ Delete(t)
    \/ DeleteFind(t)
    \/ DeleteChat(t)

Spec == Init /\ [][Next]_vars

\* ------------------------------------------- two turns in one process
\* Two requests of POST /api/chat/message, in any interleaving of their
\* awaits (one after the other included), on the database of one finished
\* turn.  Each request has its own content; both stream.
ConcSlots == {1, 2}

\* chunks a stream of these turns delivers at most
ConcChunks == 1

ConcContents == << <<"b">>, <<"c">> >>

ConcChunkSet ==
  { Chunk(<< Delta(Some(<<"x">>), None) >>, None),
    Chunk(<< Delta(Some(<<"y">>), None) >>, Some(Usage(1, 1, 2))) }

ConcErrors == { [api |-> FALSE, status |-> None] }

InitConc ==
  /\ chats = OneTurnDatabase.chats
  /\ messages = OneTurnDatabase.messages
  /\ nextChatId = OneTurnDatabase.nextChatId
  /\ nextMsgId = OneTurnDatabase.nextMsgId
  /\ aiModels = {AIModelRow("m1", TRUE, TRUE), AIModelRow("m2", FALSE, TRUE)}
  /\ call = [t \in ConcSlots |-> IdleCall]
  /\ encoderCache = {}
  /\ auth = IdleAuth
  /\ now = 0
  /\ InitLimiter
  /\ InitLedger

ConcRequest(t) ==
  RequestWith(t, {Some(u) : u \in Users}, {ConcContents[t]}, {None})

ConcStreamChunk(t) == StreamChunkWith(t, ConcChunkSet, ConcChunks)

ConcStreamFail(t) == StreamFailWith(t, ConcErrors)

NextConc ==
  \E t \in ConcSlots :
    \/ ConcRequest(t)
    \/ FindChat(t)
    \/ FindModel(t)
    \/ GetDefaultModel(t)
    \/ GetChatHistory(t)
    \/ CreateChat(t)
    \/ SaveUserMessage(t)
    \/ UpstreamOpen(t)
    \/ ConcStreamChunk(t)
    \/ StreamEnd(t)
    \/ ConcStreamFail(t)
    \/ Compensate(t)
    \/ SaveAssistant(t)

SpecConc == InitConc /\ [][NextConc]_vars

\* --------------------------------------------- turns and deletes at once
\* The two slots of SpecConc, each serving one turn or one DELETE of a chat.
NextDel ==
  \E t \in ConcSlots :
    \/ ConcRequest(t)
    \/ FindChat(t)
    \/ FindModel(t)
    \/ GetDefaultModel(t)
    \/ GetChatHistory(t)
    \/ CreateChat(t)
    \/ SaveUserMessage(t)
    \/ UpstreamOpen(t)
    \/ ConcStreamChunk(t)
    \/ StreamEnd(t)
    \/ ConcStreamFail(t)
    \/ Compensate(t)
    \/ SaveAssistant(t)
    \/ Delete(t)
    \/ DeleteFind(t)
    \/ DeleteChat(t)

SpecDel == InitConc /\ [][NextDel]_vars

\* ------------------------------------------------ login, then a request
\* One login and one request through the authenticate hook, with the
\* wall clock running; the chat routes are idle.
InitAuth ==
  /\ chats = EmptyDatabase.chats
  /\ messages = EmptyDatabase.messages
  /\ nextChatId = EmptyDatabase.nextChatId
  /\ nextMsgId = EmptyDatabase.nextMsgId
  /\ aiModels = {}
  /\ call = [t \in Slots |-> IdleCall]
  /\ encoderCache = {}
  /\ \E secret \in Secrets : auth = [IdleAuth EXCEPT !.secret = secret]
  /\ now = 0
  /\ InitLimiter
  /\ InitLedger

\* the clock advances by one tick
Tick ==
  /\ now < MaxNow
  /\ now' = now + 1
  /\ UNCHANGED <<db, call, encoderCache, auth, limiter, ledger>>

\* login(email, password) returns or throws
Login ==
  /\ auth.pc = "idle"
  /\ \E email \in Emails, password \in Passwords :
       LET result == login(email, password, auth.secret, now)
       IN  auth' = IF result.ok
                   THEN [auth EXCEPT !.pc = "loggedIn", !.email = Some(email),
                                     !.password = Some(password),
                                     !.login = Some([token |-> result.token,
                                                     user |-> result.user])]
                   ELSE [auth EXCEPT !.pc = "loginFailed", !.email = Some(email),
                                     !.password = Some(password),
                                     !.loginError = Some(result.error)]
  /\ UNCHANGED <<db, call, encoderCache, now, limiter, ledger>>

\* headers a client may send: none, the token of the login in a Bearer
\* header, the same under another scheme, with two blanks, with a signature
\* of another key, and Bearer headers without a token or with a string
\* that is no JWT
Headers ==
  LET tokens == (IF IsSome(auth.login) THEN {Val(auth.login).token} ELSE {})
      forged == {[tk EXCEPT !.key = "other"] : tk \in tokens}
  IN  {None, Some(Header("Bearer", <<>>)), Some(Header("Bearer", << EmptyToken >>)),
       Some(Header("Bearer", << NotAJwt >>))}
      \cup {Some(Header("Bearer", << tk >>)) : tk \in tokens \cup forged}
      \cup {Some(Header("Basic", << tk >>)) : tk \in tokens}
      \cup {Some(Header("Bearer", << EmptyToken, tk >>)) : tk \in tokens}

\* a request passes the authenticate hook, or the error handler replies
Authenticate ==
  /\ auth.pc \in {"loggedIn", "loginFailed"}
  /\ \E header \in Headers, isDevelopment \in BOOLEAN :
       LET result == authenticate(header, auth.secret, now)
       IN  auth' = IF result.ok
                   THEN [auth EXCEPT !.pc = "authenticated", !.header = header,
                                     !.user = Some(result.user), !.at = now]
                   ELSE [auth EXCEPT !.pc = "unauthorized", !.header = header,
                                     !.error = Some(result.error),
                                     !.reply = Some(errorHandler(result.error, isDevelopment)),
                                     !.at = now]
  /\ UNCHANGED <<db, call, encoderCache, now, limiter, ledger>>

NextAuth ==
  \/ Tick
  \/ Login
  \/ Authenticate

SpecAuth == InitAuth /\ [][NextAuth]_vars

\* ------------------------------------------- a protected route, guarded
\* One login and one DELETE /api/chat/:chatId whose onRequest hook is
\* authenticate: the handler runs only when the hook has returned, with the
\* request.user the hook has set.
InitGuard ==
  /\ chats = OneTurnDatabase.chats
  /\ messages = OneTurnDatabase.messages
  /\ nextChatId = OneTurnDatabase.nextChatId
  /\ nextMsgId = OneTurnDatabase.nextMsgId
  /\ aiModels = {}
  /\ call = [t \in Slots |-> IdleCall]
  /\ encoderCache = {}
  /\ \E secret \in Secrets : auth = [IdleAuth EXCEPT !.secret = secret]
  /\ now = 0
  /\ InitLimiter
  /\ InitLedger

GuardedDelete(t) ==
  /\ auth.pc = "authenticated"
  /\ DeleteWith(t, {Val(auth.user).userId})

NextGuard ==
  \/ Tick
  \/ Login
  \/ Authenticate
  \/ \E t \in Slots :
       \/ GuardedDelete(t)
       \/ DeleteFind(t)
       \/ DeleteChat(t)

SpecGuard == InitGuard /\ [][NextGuard]_vars

\* ------------------------------------------------- the rate limit hook
\* Requests reach the global onRequest hook; the clock runs and the hourly
\* clean-up may run at any time. The chat and auth routes are idle.
\* request.user is set by authenticate, an onRequest hook of the routes,
\* which runs after the hooks of the application: the hook sees it unset.
\* the server after start-up: nothing stored, no request yet
InitServer ==
  /\ chats = EmptyDatabase.chats
  /\ messages = EmptyDatabase.messages
  /\ nextChatId = EmptyDatabase.nextChatId
  /\ nextMsgId = EmptyDatabase.nextMsgId
  /\ aiModels = {}
  /\ call = [t \in Slots |-> IdleCall]
  /\ encoderCache = {}
  /\ auth = IdleAuth
  /\ now = 0
  /\ InitLimiter
  /\ InitLedger

OnRequest ==
  /\ hit.n < MaxHits
  /\ \E token \in {None} \cup {Some(u) : u \in Users}, forwarded \in {None, Some("ip2")} :
       LET request == HttpRequest(token, forwarded, "ip1", None)
           result == rateLimit(rateLimitStore, request, now)
           old == rateLimitStore[result.key]
           created == old = None \/ Val(old).resetTime < now
           passed == IF result.status = None THEN 1 ELSE 0
       IN  /\ rateLimitStore' = result.store
           /\ hit' = [n |-> hit.n + 1, token |-> token, key |-> Some(result.key),
                      status |-> result.status]
           /\ letThrough' = [letThrough EXCEPT ![result.key] =
                               IF created THEN passed ELSE @ + passed]
  /\ UNCHANGED <<db, call, encoderCache, auth, now, ledger>>

\* setInterval(cleanupExpiredRecords, ...)
Cleanup ==
  /\ cleanupExpiredRecords(rateLimitStore, now) # rateLimitStore
  /\ rateLimitStore' = cleanupExpiredRecords(rateLimitStore, now)
  /\ UNCHANGED <<db, call, encoderCache, auth, now, hit, letThrough, ledger>>

NextRate ==
  \/ OnRequest
  \/ Tick
  \/ Cleanup

SpecRate == InitServer /\ [][NextRate]_vars

\* ------------------------------------------------------- deductCredits
\* Two deductCredits calls at once; each await is a step of its own.
Amounts == {-1, 0, 1, 2}

\* the call is made: the check of the amount, up to the first await
Deduct(t) ==
  /\ deduct[t].pc = "idle"
  /\ \E userId \in Users \cup {"nobody"}, amount \in Amounts :
       deduct' = [deduct EXCEPT ![t] =
         IF amount <= 0
         THEN [pc |-> "failed", userId |-> Some(userId), amount |-> amount,
               error |-> Some(BusinessError("amount must be positive", 400))]
         ELSE [pc |-> "findUnique", userId |-> Some(userId), amount |-> amount,
               error |-> None]]
  /\ UNCHANGED <<db, call, encoderCache, auth, now, limiter, credits>>

\* prisma.user.findUnique and the two checks on what it read
DeductFind(t) ==
  LET d == deduct[t]
      userId == Val(d.userId)
  IN  /\ d.pc = "findUnique"
      /\ deduct' = [deduct EXCEPT ![t] =
           IF userId \notin DOMAIN credits
           THEN [d EXCEPT !.pc = "failed", !.error = Some(NotFoundError)]
           ELSE IF credits[userId] < d.amount
           THEN [d EXCEPT !.pc = "failed",
                          !.error = Some(BusinessError("insufficient credits", 400))]
           ELSE [d EXCEPT !.pc = "update"]]
      /\ UNCHANGED <<db, call, encoderCache, auth, now, limiter, credits>>

\* prisma.user.update({ data: { credits: { decrement: amount } } })
DeductUpdate(t) ==
  LET d == deduct[t]
  IN  /\ d.pc = "update"
      /\ credits' = [credits EXCEPT ![Val(d.userId)] = @ - d.amount]
      /\ deduct' = [deduct EXCEPT ![t] = [d EXCEPT !.pc = "done"]]
      /\ UNCHANGED <<db, call, encoderCache, auth, now, limiter>>

NextCredits ==
  \E t \in ConcSlots :
    \/ Deduct(t)
    \/ DeductFind(t)
    \/ DeductUpdate(t)

SpecCredits == InitServer /\ [][NextCredits]_vars

\* ------------------------------------------------------------- properties
\* helpers of the properties
RoleCount(rows, role) == Len(SelectSeq(rows, LAMBDA m : m.role = role))
UpstreamFailed(c) == c.pc = "failed" /\ IsSome(c.upstreamError)
RowCount(msgs, c) == Len(MessagesOf(msgs, Val(c.chatId)))
HasRow(msgs, id) == \E i \in 1..Len(msgs) : msgs[i].id = id
NewChats(c) == chats \ c.before.chats
NewRows(c) == SelectSeq(messages, LAMBDA m : ~HasRow(c.before.messages, m.id))

\* C1 (as stated): once sendMessage has failed on an upstream error, the
\* chat has as many Message rows as before the call.
C1_AsStated ==
  \A t \in Slots :
    UpstreamFailed(call[t]) =>
      RowCount(messages, call[t]) = RowCount(call[t].before.messages, call[t])

\* C1 (amended): after an upstream failure the chat has as many Message rows
\* as before the call and the turn's user row is gone, provided the
\* compensating delete succeeded; when the delete itself failed, the failure
\* is swallowed and the user row stays (one row more than before).
C1_CompensatingDelete ==
  \A t \in Slots :
    LET c == call[t]
    IN  UpstreamFailed(c) =>
          /\ IsSome(c.deleteDone)
          /\ Val(c.deleteDone) =>
               /\ RowCount(messages, c) = RowCount(c.before.messages, c)
               /\ ~HasRow(messages, Val(c.userMessageId))
          /\ ~Val(c.deleteDone) =>
               /\ RowCount(messages, c) = RowCount(c.before.messages, c) + 1
               /\ HasRow(messages, Val(c.userMessageId))

\* C1 witness: a stream that failed after a chunk, on a chat that had rows,
\* with the delete done
C1_Witness ==
  \E t \in Slots :
    /\ UpstreamFailed(call[t])
    /\ Len(call[t].chunks) > 0
    /\ call[t].deleteDone = Some(TRUE)
    /\ RowCount(call[t].before.messages, call[t]) > 0

\* C2 (as stated): a successful sendMessage without chatId has added exactly
\* one Chat row and exactly two Message rows, USER then ASSISTANT, of it.
C2_AsStated ==
  \A t \in Slots :
    LET c == call[t]
    IN  (c.pc = "done" /\ c.specifiedChatId = None) =>
          /\ Cardinality(NewChats(c)) = 1
          /\ Len(NewRows(c)) = 2
          /\ \A i \in 1..Len(NewRows(c)) : Some(NewRows(c)[i].chatId) = c.chatId
          /\ RoleCount(NewRows(c), "USER") = 1
          /\ RoleCount(NewRows(c), "ASSISTANT") = 1

\* C2 (amended): a successful sendMessage without chatId has added exactly
\* one Chat row; it has added exactly two Message rows of that chat (one
\* USER, one ASSISTANT) when the final transaction succeeded, and only the
\* USER row when that transaction failed, which is logged and not reported.
C2_NewChatRows ==
  \A t \in Slots :
    LET c == call[t]
        rows == NewRows(c)
    IN  (c.pc = "done" /\ c.specifiedChatId = None) =>
          /\ IsSome(c.saveDone)
          /\ Cardinality(NewChats(c)) = 1
          /\ \A ch \in NewChats(c) : Some(ch.id) = c.chatId
          /\ \A i \in 1..Len(rows) : Some(rows[i].chatId) = c.chatId
          /\ RoleCount(rows, "USER") = 1
          /\ RoleCount(rows, "ASSISTANT") = (IF Val(c.saveDone) THEN 1 ELSE 0)
          /\ Len(rows) = (IF Val(c.saveDone) THEN 2 ELSE 1)

\* C2 witness: a new chat whose turn was stored completely, next to older rows
C2_Witness ==
  \E t \in Slots :
    /\ call[t].pc = "done"
    /\ call[t].specifiedChatId = None
    /\ call[t].saveDone = Some(TRUE)
    /\ call[t].before.messages # <<>>

\* what the non-streaming branch returns for the reply of a chunk sequence
BufferedResult(c) ==
  LET st == NonStreaming(StreamState(IdleCall), AsCompletion(c.chunks))
  IN  [content |-> st.fullContent,
       usage |-> UsageFallback(st.usage, c.allMessages, st.fullContent, st.reasoning)]

\* C3: for the same upstream reply, a streamed call returns the content and
\* the usage triple that the non-streamed call returns.
C3_StreamEqualsBuffered ==
  \A t \in Slots :
    LET c == call[t]
    IN  (c.pc = "done" /\ c.useStream) =>
          /\ Val(c.result).content = BufferedResult(c).content
          /\ Val(c.result).usage = BufferedResult(c).usage

\* C4: a successful non-streaming call hands onChunk exactly one content
\* event followed by exactly one done event.
C4_BufferedEvents ==
  \A t \in Slots :
    LET c == call[t]
    IN  (c.pc = "done" /\ ~c.useStream) =>
          c.events = << ContentEvent(c.fullContent), DoneEvent >>

\* the non-empty content deltas of a chunk sequence, in arrival order
RECURSIVE NonEmptyDeltas(_)
NonEmptyDeltas(cs) ==
  IF cs = <<>> THEN <<>>
  ELSE LET c == Head(cs)
           d == IF c.choices = <<>> THEN <<>> ELSE DeltaContent(c.choices[1])
       IN  (IF d = <<>> THEN <<>> ELSE << d >>) \o NonEmptyDeltas(Tail(cs))

ContentEvents(events) == SelectSeq(events, LAMBDA e : e.type = "content")
DoneEvents(events) == SelectSeq(events, LAMBDA e : e.type = "done")

RECURSIVE ConcatAll(_)
ConcatAll(texts) == IF texts = <<>> THEN <<>> ELSE Head(texts) \o ConcatAll(Tail(texts))

Streaming(c) == c.useStream /\ c.upstreamCalls > 0

\* C5: in streaming mode the content events handed to onChunk are exactly
\* the non-empty content deltas of the chunks received, once each and in
\* arrival order, and their concatenation is the content returned.
C5_ContentEvents ==
  \A t \in Slots :
    LET c == call[t]
        delivered == ContentEvents(c.events)
    IN  Streaming(c) =>
          /\ Len(delivered) = Len(NonEmptyDeltas(c.chunks))
          /\ \A i \in 1..Len(delivered) : delivered[i].content = NonEmptyDeltas(c.chunks)[i]
          /\ c.pc = "done" =>
               ConcatAll([i \in 1..Len(delivered) |-> delivered[i].content])
                 = Val(c.result).content

\* C5 witness: a streamed turn returned after two non-empty deltas
C5_Witness ==
  \E t \in Slots :
    /\ call[t].pc = "done"
    /\ Streaming(call[t])
    /\ Len(NonEmptyDeltas(call[t].chunks)) >= 2
    /\ Val(call[t].result).content = <<"x", "y">>

\* C6: in streaming mode a stream exhausted without error gives exactly one
\* done event, after every content event; a stream still open or a turn
\* that failed has none.
C6_DoneEvent ==
  \A t \in Slots :
    LET c == call[t]
    IN  Streaming(c) =>
          IF c.pc \in {"saveAssistant", "done"}
          THEN /\ Len(DoneEvents(c.events)) = 1
               /\ c.events[Len(c.events)] = DoneEvent
          ELSE DoneEvents(c.events) = <<>>

\* C6 witness: a streamed turn returned after content events
C6_Witness ==
  \E t \in Slots :
    /\ call[t].pc = "done"
    /\ Streaming(call[t])
    /\ Len(ContentEvents(call[t].events)) >= 1
    /\ Len(call[t].chunks) = MaxChunks

\* C7: on the response of a successful turn the line `data: [DONE]` is
\* written exactly once and nothing is written after it.
C7_DoneIsLast ==
  \A t \in Slots :
    LET c == call[t]
    IN  c.pc = "done" =>
          /\ Len(SelectSeq(c.raw, IsDoneLine)) = 1
          /\ IsDoneLine(c.raw[Len(c.raw)])

\* C8: when sendMessage fails after the handler began writing the stream,
\* the handler writes exactly one error event, ends the response and sends
\* no JSON error reply.
C8_InBandError ==
  \A t \in Slots :
    LET c == call[t]
    IN  (c.pc = "failed" /\ c.raw # <<>>) =>
          /\ Len(SelectSeq(c.raw, LAMBDA l : ~IsDoneLine(l) /\ l.type = "error")) = 1
          /\ c.rawEnded
          /\ c.jsonReply = None

\* empty or whitespace only
IsBlank(text) == \A i \in 1..Len(text) : IsSpace(text[i])

\* C9: a call whose content is empty or only whitespace fails with the
\* validation error, with no Chat row, no Message row and no upstream call.
C9_EmptyContent ==
  \A t \in Slots :
    LET c == call[t]
    IN  (IsSome(c.userId) /\ IsSome(c.body) /\ IsBlank(Val(c.body).content)) =>
          /\ c.pc = "failed"
          /\ c.error = Some(ZodError)
          /\ chats = c.before.chats
          /\ messages = c.before.messages
          /\ c.upstreamCalls = 0

\* C9 witness: a whitespace-only content was rejected
C9_Witness ==
  \E t \in Slots :
    /\ call[t].pc = "failed"
    /\ IsSome(call[t].body)
    /\ Val(call[t].body).content = <<" ">>
    /\ call[t].error = Some(ZodError)

\* C10 (as stated): the user's row exists before the upstream request is
\* issued, and a turn whose upstream call failed still has that row.
C10_AsStated ==
  \A t \in Slots :
    LET c == call[t]
    IN  /\ c.pc \in {"callUpstream", "streaming", "compensate"} =>
             IsSome(c.userMessageId) /\ HasRow(messages, Val(c.userMessageId))
        /\ UpstreamFailed(c) => HasRow(messages, Val(c.userMessageId))

\* C10 (amended): the user's row is created before the upstream request is
\* issued and is there while the request runs; a turn whose upstream call
\* failed does not keep it: the catch block deletes the row, which stays
\* only when that delete itself fails.
C10_UserRowFirst ==
  \A t \in Slots :
    LET c == call[t]
    IN  /\ (c.pc \in {"callUpstream", "streaming", "compensate"} \/ c.upstreamCalls > 0) =>
             IsSome(c.userMessageId)
        /\ c.pc \in {"callUpstream", "streaming", "compensate"} =>
             HasRow(messages, Val(c.userMessageId))
        /\ UpstreamFailed(c) =>
             (HasRow(messages, Val(c.userMessageId)) <=> c.deleteDone = Some(FALSE))

\* C10 witness: the request was refused outright and the user's row removed
C10_Witness ==
  \E t \in Slots :
    /\ UpstreamFailed(call[t])
    /\ call[t].chunks = <<>>
    /\ ~HasRow(messages, Val(call[t].userMessageId))

\* updatedAt of a chat; a chat is created with 0
UpdatedAt(chatRows, id) ==
  IF \E ch \in chatRows : ch.id = id
  THEN (CHOOSE ch \in chatRows : ch.id = id).updatedAt
  ELSE 0

AssistantRows(msgs, c) ==
  SelectSeq(MessagesOf(msgs, Val(c.chatId)), LAMBDA m : m.role = "ASSISTANT")

\* C11: of the final write either both parts are applied (one ASSISTANT row
\* with the reply, and the chat's updatedAt bumped) or neither is; in both
\* cases sendMessage returns the full AIResponse (content, reasoning, model,
\* usage) of the turn.
C11_AtomicWriteBehind ==
  \A t \in Slots :
    LET c == call[t]
        rowsNow == AssistantRows(messages, c)
        rowsBefore == AssistantRows(c.before.messages, c)
        bumps == UpdatedAt(chats, Val(c.chatId)) - UpdatedAt(c.before.chats, Val(c.chatId))
    IN  c.pc = "done" =>
          /\ IsSome(c.saveDone)
          /\ \/ /\ Val(c.saveDone)
                /\ Len(rowsNow) = Len(rowsBefore) + 1
                /\ rowsNow[Len(rowsNow)].content = c.fullContent
                /\ bumps = 1
             \/ /\ ~Val(c.saveDone)
                /\ rowsNow = rowsBefore
                /\ bumps = 0
          /\ c.result = Some([content |-> c.fullContent, reasoning |-> c.reasoning,
                              modelId |-> Val(c.modelConfig).id, usage |-> c.usage])

\* C11 witness: the final write failed on a chat that had rows, and the turn
\* still returned its reply
C11_Witness ==
  \E t \in Slots :
    /\ call[t].pc = "done"
    /\ call[t].saveDone = Some(FALSE)
    /\ IsSome(call[t].result)
    /\ Val(call[t].result).content # <<>>
    /\ AssistantRows(messages, call[t]) # <<>>

\* C12: a turn whose upstream call failed ends with a ChatError whose status
\* is the status the upstream error carries, and 503 when it carries none.
C12_ServiceUnavailable ==
  \A t \in Slots :
    LET c == call[t]
        error == Val(c.upstreamError)
    IN  UpstreamFailed(c) =>
          /\ IsSome(c.error)
          /\ Val(c.error).name = "ChatError"
          /\ Val(c.error).statusCode = (IF IsSome(error.status) THEN Val(error.status) ELSE 503)

\* the chat of that id exists and belongs to somebody else
NotOwned(c) ==
  /\ IsSome(c.userId)
  /\ IsSome(c.specifiedChatId)
  /\ \E ch \in c.before.chats : ch.id = Val(c.specifiedChatId) /\ ch.userId # Val(c.userId)

Assembled(c) ==
  /\ c.op = "sendMessage"
  /\ c.allMessages # <<>>

\* turn `second` was requested on the chat of turn `first` after `first`
\* had returned
Follows(first, second) ==
  /\ first.op = "sendMessage"
  /\ first.pc = "done"
  /\ IsSome(second.specifiedChatId)
  /\ second.specifiedChatId = first.chatId
  /\ Assembled(second)
  /\ HasRow(second.before.messages, Val(first.userMessageId))
  /\ Len(second.before.messages) =
       Len(first.before.messages) + (IF Val(first.saveDone) THEN 2 ELSE 1)

\* the context holds the user message of `first`, directly followed by its
\* reply, before the new user turn, which is last
HoldsTurn(context, first, second) ==
  /\ context[Len(context)] = [role |-> "user", content |-> second.content]
  /\ \E i \in 1..(Len(context) - 2) :
       /\ context[i] = [role |-> "USER", content |-> first.content]
       /\ context[i + 1] = [role |-> "ASSISTANT", content |-> Val(first.result).content]

\* C14 (as stated): when a sendMessage call on a chat follows one that
\* returned, its upstream context holds the first call's user message
\* followed by the first call's reply, before the new user turn.
C14_AsStated ==
  \A s, t \in DOMAIN call :
    (s # t /\ Follows(call[s], call[t])) => HoldsTurn(call[t].allMessages, call[s], call[t])

\* C14 (amended): when a sendMessage call on a chat follows one that
\* returned and whose final write succeeded, its upstream context holds the
\* first call's user message directly followed by the first call's reply,
\* in that order, before the new user turn; when the first call's final
\* write failed (which that call does not report), the context holds the
\* first call's user message and no reply to it.
C14_NextTurnContext ==
  \A s, t \in DOMAIN call :
    LET first == call[s]
        second == call[t]
        context == second.allMessages
    IN  (s # t /\ Follows(first, second)) =>
          IF Val(first.saveDone)
          THEN HoldsTurn(context, first, second)
          ELSE /\ context[Len(context)] = [role |-> "user", content |-> second.content]
               /\ context[Len(context) - 1] = [role |-> "USER", content |-> first.content]

\* C14 witness: the second turn was assembled after the first one, with a
\* non-empty reply, was stored
C14_Witness ==
  \E s, t \in DOMAIN call :
    /\ s # t
    /\ Follows(call[s], call[t])
    /\ call[s].saveDone = Some(TRUE)
    /\ Val(call[s].result).content # <<>>
    /\ Len(call[t].allMessages) = 5

\* the stream of the turn failed after it had delivered content
FailedMidStream(c) == UpstreamFailed(c) /\ c.fullContent # <<>>

\* C15 (as stated): when the stream fails after at least one content chunk,
\* the text accumulated so far is stored as the turn's ASSISTANT row.
C15_AsStated ==
  \A t \in Slots :
    LET c == call[t]
        rows == NewRows(c)
    IN  FailedMidStream(c) =>
          \E i \in 1..Len(rows) :
            rows[i].role = "ASSISTANT" /\ rows[i].content = c.fullContent

\* C15 (amended): when the stream fails after at least one content chunk,
\* the text accumulated so far is discarded: the turn stores no ASSISTANT
\* row and returns no reply, it fails with the ChatError of the upstream
\* failure, and of the turn only the USER row is left, and that only when
\* the compensating delete failed.
C15_PartialDiscarded ==
  \A t \in Slots :
    LET c == call[t]
        rows == NewRows(c)
    IN  FailedMidStream(c) =>
          /\ RoleCount(rows, "ASSISTANT") = 0
          /\ Len(rows) = (IF Val(c.deleteDone) THEN 0 ELSE 1)
          /\ c.saveDone = None
          /\ c.result = None
          /\ Val(c.error).name = "ChatError"

\* C15 witness: a stream failed after two content chunks
C15_Witness ==
  \E t \in Slots :
    /\ FailedMidStream(call[t])
    /\ call[t].fullContent = <<"x", "y">>
    /\ call[t].deleteDone = Some(TRUE)

\* a row without its id
Stored(row) ==
  [chatId |-> row.chatId, role |-> row.role, content |-> row.content,
   reasoning |-> row.reasoning, modelId |-> row.modelId, usage |-> row.usage]

StoredRows(rows) == [i \in 1..Len(rows) |-> Stored(rows[i])]

\* the rows the chat of a turn had when the turn was requested
OwnRowsBefore(c) ==
  IF IsSome(c.specifiedChatId) THEN MessagesOf(c.before.messages, Val(c.chatId)) ELSE <<>>

\* what the turn does when it runs alone: its context, the rows of its
\* chat at each point, and the AIResponse for the chunks it received
AloneContext(c) ==
  LET own == OwnRowsBefore(c)
      first == IF Len(own) > HistoryLimit THEN Len(own) - HistoryLimit + 1 ELSE 1
  IN  [i \in 1..(Len(own) + 1 - first) |->
         [role |-> own[first + i - 1].role, content |-> own[first + i - 1].content]]
      \o << [role |-> "user", content |-> c.content] >>

AloneResult(c) ==
  LET content == ConcatAll(NonEmptyDeltas(c.chunks))
      reported == ReplyUsage(c.chunks)
      prompt == Join([i \in 1..(Len(AloneContext(c)) - 1) |->
                        RoleText(AloneContext(c)[i].role) \o <<":", " ">>
                          \o AloneContext(c)[i].content], <<"\n">>)
  IN  [content |-> content, reasoning |-> None, modelId |-> "m1",
       usage |-> IF IsSome(reported) /\ Val(reported).totalTokens # 0
                 THEN Val(reported)
                 ELSE Usage(Len(prompt), Len(content), Len(prompt) + Len(content))]

AloneRows(c) ==
  LET user == << Stored(UserMessageRow(0, Val(c.chatId), c.content)) >>
      reply == << Stored(AssistantMessageRow(0, Val(c.chatId), AloneResult(c).content, None,
                                             "m1", AloneResult(c).usage)) >>
  IN  StoredRows(OwnRowsBefore(c)) \o
      (CASE c.pc \in {"callUpstream", "streaming", "compensate", "saveAssistant"} -> user
         [] c.pc = "failed" /\ IsSome(c.deleteDone) /\ ~Val(c.deleteDone) -> user
         [] c.pc = "done" /\ Val(c.saveDone) -> user \o reply
         [] c.pc = "done" /\ ~Val(c.saveDone) -> user
         [] OTHER -> <<>>)

\* two turns on two chats
OnDifferentChats(a, b) ==
  /\ a.op = "sendMessage" /\ b.op = "sendMessage"
  /\ IsSome(a.chatId) /\ IsSome(b.chatId)
  /\ a.chatId # b.chatId

\* C16: of two sendMessage turns on different chats, in every interleaving
\* of their steps, each one assembles the context, leaves in its chat the
\* Message rows, and returns the AIResponse (content and usage) that it
\* assembles, leaves and returns when it runs alone.
C16_Isolation ==
  \A s, t \in DOMAIN call :
    LET c == call[t]
    IN  (s # t /\ OnDifferentChats(call[s], c)) =>
          /\ Assembled(c) => c.allMessages = AloneContext(c)
          /\ StoredRows(MessagesOf(messages, Val(c.chatId))) = AloneRows(c)
          /\ c.pc = "done" =>
               /\ Val(c.result).content = AloneResult(c).content
               /\ Val(c.result).usage = AloneResult(c).usage

\* C16 witness: two turns on different chats, each requested before the
\* other stored anything, returned, one of them with the local usage
\* estimate
C16_Witness ==
  \E s, t \in DOMAIN call :
    /\ s # t
    /\ OnDifferentChats(call[s], call[t])
    /\ call[s].pc = "done" /\ call[t].pc = "done"
    /\ call[s].before.messages = call[t].before.messages
    /\ call[s].saveDone = Some(TRUE) /\ call[t].saveDone = Some(TRUE)
    /\ IsSome(call[s].specifiedChatId)
    /\ ReplyUsage(call[s].chunks) = None
    /\ Val(call[s].assistantMessageId) < Val(call[t].userMessageId)

\* the request carried the token of the login in a Bearer header, before
\* the token expired
LoginTokenPresented ==
  /\ auth.pc \in {"authenticated", "unauthorized"}
  /\ IsSome(auth.login)
  /\ auth.header = Some(Header("Bearer", << Val(auth.login).token >>))
  /\ auth.at < Val(auth.login).token.exp

\* C17: the token of a successful login of user u, sent as
\* `Authorization: Bearer <token>` before it expires, passes authenticate,
\* and request.user is u's id, u's name and u's email.
C17_LoginTokenAccepted ==
  LoginTokenPresented =>
    /\ auth.pc = "authenticated"
    /\ \E u \in UserRows :
         /\ Some(u.email) = auth.email
         /\ auth.user = Some([userId |-> Some(u.id), name |-> u.name,
                              email |-> Some(u.email)])

\* C18: the body of every reply whose status is not 2xx has exactly the
\* fields code, message and data.
C18_ErrorEnvelope ==
  \A t \in Slots :
    LET c == call[t]
    IN  (IsSome(c.jsonReply) /\ Val(c.jsonReply).status \notin 200..299) =>
          Val(c.jsonReply).fields = {"code", "message", "data"}

\* C19: the context of a turn on an existing chat is the ten most recently
\* created rows that chat had (all of them when it had fewer), oldest
\* first, followed by the new user turn; it has at most eleven entries and
\* none comes from a row of another chat.
C19_ContextWindow ==
  \A t \in Slots :
    LET c == call[t]
        rows == MessagesOf(c.before.messages, Val(c.chatId))
        n == Len(rows)
        k == IF n < HistoryLimit THEN n ELSE HistoryLimit
        context == c.allMessages
    IN  (Assembled(c) /\ IsSome(c.specifiedChatId)) =>
          /\ Len(context) = k + 1
          /\ Len(context) <= HistoryLimit + 1
          /\ \A i \in 1..k :
               /\ context[i].content = rows[n - k + i].content
               /\ context[i].role = rows[n - k + i].role
               /\ rows[n - k + i].chatId = Val(c.chatId)
          /\ context[k + 1] = [role |-> "user", content |-> c.content]

\* C19 witness: a turn on the chat of eleven rows, while another chat has a
\* row among the latest ten
C19_Witness ==
  \E t \in Slots :
    /\ Assembled(call[t])
    /\ call[t].specifiedChatId = Some(1)
    /\ Len(MessagesOf(call[t].before.messages, 1)) = HistoryLimit + 1
    /\ Len(call[t].before.messages) > HistoryLimit + 1
    /\ Len(call[t].allMessages) = HistoryLimit + 1

\* C20: when a chunk of a streamed turn reported usage counters, the usage
\* returned is that of the last chunk that reported them, whatever else the
\* chunk holds.
C20_LastReportedUsage ==
  \A t \in Slots :
    LET c == call[t]
    IN  (c.pc = "done" /\ Streaming(c) /\ IsSome(ReplyUsage(c.chunks))) =>
          Val(c.result).usage = Val(ReplyUsage(c.chunks))

\* the text of all the messages sent upstream, one `role: content` line each
PromptText(allMessages) ==
  Join([i \in 1..Len(allMessages) |->
          RoleText(allMessages[i].role) \o <<":", " ">> \o allMessages[i].content],
       <<"\n">>)

\* every chunk that reported usage also carried a choice
UsageWithChoice(cs) == \A i \in 1..Len(cs) : IsSome(cs[i].usage) => cs[i].choices # <<>>

\* C21: for a streamed turn whose upstream reported no usage, promptTokens
\* is the token count of the text of all the messages sent upstream (the
\* history and the new user turn) and completionTokens that of the reply
\* followed by the reasoning; usage the upstream reported is returned as it
\* was reported.
C21_UsageFallback ==
  \A t \in Slots :
    LET c == call[t]
        usage == Val(c.result).usage
        reasoning == IF IsSome(c.reasoning) THEN Val(c.reasoning) ELSE <<>>
    IN  (c.pc = "done" /\ Streaming(c)) =>
          /\ ReplyUsage(c.chunks) = None =>
               /\ usage.promptTokens = Len(PromptText(c.allMessages))
               /\ usage.completionTokens = Len(c.fullContent \o reasoning)
          /\ (IsSome(ReplyUsage(c.chunks)) /\ UsageWithChoice(c.chunks)) =>
               usage = Val(ReplyUsage(c.chunks))

\* C22: every ASSISTANT row written by sendMessage, and the usage it
\* returns, has totalTokens = promptTokens + completionTokens.
C22_TotalIsSum ==
  \A t \in Slots :
    LET c == call[t]
        rows == SelectSeq(NewRows(c), LAMBDA m : m.role = "ASSISTANT")
        Sums(u) == u.totalTokens = u.promptTokens + u.completionTokens
    IN  /\ \A i \in 1..Len(rows) : Sums(Val(rows[i].usage))
        /\ c.pc = "done" => Sums(Val(c.result).usage)

Enabled == {m \in aiModels : m.enabled}

\* the enabled model config the chat of the turn refers to, if there is one
OwnModel(c) == {m \in Enabled : IsSome(c.chatModelId) /\ m.id = Val(c.chatModelId)}

Resolved(c) ==
  c.pc \notin {"idle", "rejected", "findChat", "findModel", "getDefaultModel"}
  /\ (c.pc = "failed" => Val(c.error) \notin {ZodError, NotFoundError})

\* C23: the model config of a turn is enabled, and it is the one the chat
\* refers to whenever that one is enabled; no upstream call is made with a
\* disabled config; when no config is enabled a turn that reaches model
\* resolution fails with the ChatError of getDefaultModel and has made no
\* upstream call.
C23_ModelResolution ==
  \A t \in Slots :
    LET c == call[t]
    IN  c.op = "sendMessage" =>
          /\ IsSome(c.modelConfig) =>
               /\ Val(c.modelConfig) \in Enabled
               /\ OwnModel(c) # {} => Val(c.modelConfig) \in OwnModel(c)
          /\ c.upstreamCalls > 0 => IsSome(c.modelConfig)
          /\ c.upstreamCalls <= 1
          /\ Enabled = {} =>
               /\ c.upstreamCalls = 0
               /\ c.modelConfig = None
               /\ Resolved(c) =>
                    (c.pc = "failed" /\ c.error = Some(ChatError("no model", 400)))

\* C23 witness: a turn on a chat whose own model config is disabled has
\* called the upstream with another, enabled, config.
C23_Witness ==
  \E t \in Slots :
    LET c == call[t]
    IN  /\ c.op = "sendMessage" /\ c.upstreamCalls > 0
        /\ IsSome(c.chatModelId)
        /\ \E m \in aiModels : m.id = Val(c.chatModelId) /\ ~m.enabled
        /\ Val(c.modelConfig).id # Val(c.chatModelId)

\* position of a program point of sendMessage in the order of its phases
Phase(pc) ==
  CASE pc = "idle" -> 0
    [] pc = "findChat" -> 1
    [] pc = "findModel" -> 2
    [] pc = "getDefaultModel" -> 3
    [] pc \in {"getChatHistory", "createChat"} -> 4
    [] pc = "saveUserMessage" -> 5
    [] pc = "callUpstream" -> 6
    [] pc = "streaming" -> 7
    [] pc \in {"compensate", "saveAssistant"} -> 8
    [] OTHER -> 9

\* C24: every step of a turn that changes its phase moves it to a later
\* phase, so no phase is entered twice; the compensating delete runs only
\* in a turn whose upstream call failed; and a turn that ran the
\* compensating delete neither persists nor returns an assistant reply.
C24_ForwardPass ==
  [][\A t \in Slots :
       LET c == call[t]
           d == call'[t]
       IN  d.op = "sendMessage" =>
             /\ d.pc # c.pc => Phase(d.pc) > Phase(c.pc)
             /\ (IsSome(d.deleteDone) /\ c.deleteDone = None) =>
                  (IsSome(c.upstreamError) /\ c.upstreamCalls > 0)
             /\ IsSome(d.deleteDone) =>
                  /\ d.saveDone = None /\ d.result = None
                  /\ d.assistantMessageId = None
                  /\ \A i \in 1..Len(messages') :
                       (messages'[i].role = "ASSISTANT"
                        /\ messages'[i].chatId = Val(d.chatId))
                       => HasRow(d.before.messages, messages'[i].id)
             /\ (IsSome(d.saveDone) \/ IsSome(d.result)) => d.upstreamError = None
  ]_vars

\* C24 witness: a turn has gone through the failure branch to its end, the
\* compensating delete having run.
C24_Witness ==
  \E t \in Slots :
    LET c == call[t]
    IN  c.op = "sendMessage" /\ c.pc = "failed" /\ IsSome(c.deleteDone)
        /\ Len(c.chunks) > 0

\* the chat of the turn was there when the turn began and is gone
ChatDeletedInFlight(c) ==
  /\ c.op = "sendMessage" /\ IsSome(c.chatId)
  /\ ~ChatExists(chats, Val(c.chatId))

C26_PerUserKey ==
  hit.n > 0 =>
    IF IsSome(hit.token)
    THEN Val(hit.key) = UserKey("api", Val(hit.token))
    ELSE Val(hit.key) \in {IpKey("api", ip) : ip \in Ips}

\* the hook has answered the last request itself
Limited == hit.status = Some(429)

\* C27: in every window of a key at most maxRequests requests are let
\* through; a request over the limit is answered with 429 and leaves the
\* resetTime of the window as it is; the first request after the resetTime
\* of a record has passed starts a window with count 1, and so does the
\* first request of a key.
C27_Window ==
  [][hit'.n # hit.n =>
       LET key == Val(hit'.key)
           old == rateLimitStore[key]
           new == Val(rateLimitStore'[key])
           expired == old = None \/ Val(old).resetTime < now
       IN  /\ IsSome(rateLimitStore'[key])
           /\ letThrough'[key] <= MaxRequests
           /\ Limited' <=> (~expired /\ letThrough[key] = MaxRequests)
           /\ Limited' => (new.resetTime = Val(old).resetTime
                           /\ letThrough'[key] = letThrough[key])
           /\ expired => (new = RateLimitItem(1, now + TimeWindow) /\ ~Limited')
           /\ ~expired => new = RateLimitItem(Val(old).count + 1, Val(old).resetTime)
           /\ \A k \in Keys \ {key} : rateLimitStore'[k] = rateLimitStore[k]
  ]_vars

\* C27 witness: a key has had a full window, a request over the limit, and
\* then a new window.
C27_Witness ==
  /\ hit.n > MaxRequests + 1
  /\ hit.status = None
  /\ rateLimitStore[Val(hit.key)] = Some(RateLimitItem(1, now + TimeWindow))
  /\ now > TimeWindow

\* credits the calls that succeeded have deducted from a user
Deducted(u) ==
  LET Of(t) == IF deduct[t].pc = "done" /\ deduct[t].userId = Some(u)
               THEN deduct[t].amount ELSE 0
  IN  Of(1) + Of(2)

\* C28: a balance is never negative, the calls that succeeded have not
\* deducted more than the balance before them, and the balance is what
\* was there before less what the calls that succeeded deducted, a failed
\* call having changed nothing.
C28_NonNegative ==
  \A u \in Users :
    /\ credits[u] >= 0
    /\ Deducted(u) <= InitialCredits
    /\ (\A t \in ConcSlots : deduct[t].pc \in {"idle", "failed", "done"}) =>
         credits[u] = InitialCredits - Deducted(u)

\* the turn has failed before the upstream request was issued
FailedBeforeUpstream(c) ==
  c.op = "sendMessage" /\ c.pc = "failed" /\ c.upstreamCalls = 0

\* C29: a sendMessage call that fails before the upstream request is
\* issued leaves the Chat rows and the Message rows as they were; no new
\* chat is left behind.
C29_NothingWritten ==
  \A t \in Slots :
    LET c == call[t]
    IN  FailedBeforeUpstream(c) =>
          /\ Cardinality(chats) = Cardinality(c.before.chats)
          /\ Len(messages) = Len(c.before.messages)
          /\ NewChats(c) = {}

\* the header has the form `Bearer <token>` and its token is a JWT signed
\* with the configured secret that has not expired at the given time
ValidBearer(header, secret, clock) ==
  /\ IsSome(header)
  /\ Val(header).scheme = "Bearer"
  /\ Len(Val(header).tokens) = 1
  /\ LET token == Val(header).tokens[1]
     IN  token.jwt /\ secret # "" /\ token.key = secret /\ clock < token.exp

\* no handler of a protected route has run: no call was started and the
\* rows are those of start-up
Untouched ==
  /\ \A t \in Slots : call[t] = IdleCall
  /\ chats = OneTurnDatabase.chats
  /\ messages = OneTurnDatabase.messages

\* request.user is set for valid Bearer headers only, and a refused request
\* has no request.user and has run no handler
GuardHolds ==
  /\ IsSome(auth.user) => ValidBearer(auth.header, auth.secret, auth.at)
  /\ (\E t \in Slots : call[t] # IdleCall) => IsSome(auth.user)
  /\ auth.pc = "unauthorized" => (auth.user = None /\ IsSome(auth.reply) /\ Untouched)

====
